---- MODULE Spec2Model ----
(***************************************************************************)
(* TorchBasedFeatureStore (python/dgl/graphbolt/feature_store.py): a       *)
(* dictionary from string keys to torch tensors with an optionally         *)
(* row-indexed read and update.                                            *)
(*                                                                         *)
(* Tensors are objects on a heap: the dictionary holds references, a full  *)
(* read hands a reference back, and `t[ids] = value` mutates the object in *)
(* place, so aliasing is part of the model.  Rows are atomic values.       *)
(* A caller drives the store: it calls an operation (CallRead, ...), the   *)
(* whole method body runs (Construct, Read, Update), and the caller takes  *)
(* the outcome and goes on (Resume).                                       *)
(***************************************************************************)
EXTENDS Integers, Sequences, FiniteSets

VARIABLES pc, feature_dict, heap, call, held

vars == <<pc, feature_dict, heap, call, held>>

(* ------------------------------ bounds -------------------------------- *)

\* Rows of the largest tensor the caller owns.
MaxRows == 2

\* Longest index tensor (and value tensor) passed to read and update.
MaxIds == 2

(* ------------------------- values of the model ------------------------ *)

\* Python's None, where a tensor is expected.
None == "None"

\* The tensors the caller owns; each is one object with a fixed shape.
Obj == {"t1", "t2"}

\* shape[0] of each of the caller's tensors: t2 is a one-row tensor.
Rows(o) == IF o = "t1" THEN MaxRows ELSE 1

\* What a row can hold.
Val == {0, 1}

\* Keys that are str, and a key that is not (the integer 7).
StrKeys == {"user", "item"}

IntKey == "int:7"

AllKeys == StrKeys \cup {IntKey}

\* isinstance(k, str)
IsStr(k) == k \in StrKeys

\* isinstance(v, torch.Tensor), for a value held by reference
IsTensor(v) == v \in Obj

\* Entries of an index tensor: negative entries count from the end, and
\* MaxRows is out of range for every tensor.
IdxDom == -1 .. MaxRows

SeqsUpTo(S, n) == UNION {[1 .. m -> S] : m \in 0 .. n}

IdsSet == SeqsUpTo(IdxDom, MaxIds)

\* Contents of a tensor passed as `value` to an indexed update.
ValueSet == SeqsUpTo(Val, MaxIds)

Zeros(n) == [j \in 1 .. n |-> 0]

(* ------------------------- torch tensor indexing ---------------------- *)

\* An index tensor entry is valid for n rows iff -n <= idx < n.
InRange(idx, n) == idx >= -n /\ idx < n

\* A negative entry taken for row 0.
NormIndexClamp(idx, n) == IF idx < 0 THEN 0 ELSE idx

\* The row (0-based) an in-range entry names.
NormIndex(idx, n) == IF idx < 0 THEN idx + n ELSE idx

AllInRange(ids, n) == \A j \in 1 .. Len(ids) : InRange(ids[j], n)

\* t[ids]: a new tensor holding the rows named by ids, in the order of ids.
Gather(t, ids) == [j \in 1 .. Len(ids) |-> t[NormIndex(ids[j], Len(t)) + 1]]

\* The positions of ids that name row r of a tensor of n rows.
Hits(ids, n, r) ==
    {j \in 1 .. Len(ids) : InRange(ids[j], n) /\ NormIndex(ids[j], n) = r}

\* The write goes to a copy of the tensor and is lost.
ScatterOnCopy(t, ids, v) == {t}

\* The last position of ids is never written.
ScatterDropLast(t, ids, v) ==
    {u \in [1 .. Len(t) -> Val] :
        \A r \in 0 .. Len(t) - 1 :
            IF Hits(ids, Len(t), r) \ {Len(ids)} = {}
            THEN u[r + 1] = t[r + 1]
            ELSE \E j \in Hits(ids, Len(t), r) \ {Len(ids)} : u[r + 1] = v[j]}

\* t[ids] = v with every entry in range: torch's index_put_ with
\* accumulate=False.  A row named by no entry is kept; a row named by one
\* entry takes that row of v.  For a row named by several entries torch
\* documents the result as undefined: the writes have no guaranteed order
\* (a serial loop leaves the last one, a kernel writing entries concurrently
\* can leave any), so every position naming the row is a possible winner.
ScatterOutcomes(t, ids, v) ==
    {u \in [1 .. Len(t) -> Val] :
        \A r \in 0 .. Len(t) - 1 :
            IF Hits(ids, Len(t), r) = {}
            THEN u[r + 1] = t[r + 1]
            ELSE \E j \in Hits(ids, Len(t), r) : u[r + 1] = v[j]}

\* The position of the first out-of-range entry of ids, Len(ids) + 1 if
\* there is none.
FirstOutOfRange(ids, n) ==
    LET bad == {j \in 1 .. Len(ids) : ~InRange(ids[j], n)}
    IN IF bad = {} THEN Len(ids) + 1
       ELSE CHOOSE j \in bad : \A i \in bad : j <= i

\* An out-of-range entry is clamped to the last row and written there.
PartialClamped(t, ids, v) ==
    {u \in [1 .. Len(t) -> Val] :
        \A r \in 0 .. Len(t) - 1 :
            \/ u[r + 1] = t[r + 1]
            \/ \E j \in 1 .. Len(ids) :
                  /\ r = (IF InRange(ids[j], Len(t))
                          THEN NormIndex(ids[j], Len(t)) ELSE Len(t) - 1)
                  /\ u[r + 1] = v[j]}

\* t[ids] = v with an entry out of range: the kernel checks each entry as
\* it reaches it and raises IndexError at the first one out of range, so
\* the rows named by the entries before it may already have been written
\* (a build that validates first has written none).
PartialOutcomes(t, ids, v) ==
    {u \in [1 .. Len(t) -> Val] :
        \A r \in 0 .. Len(t) - 1 :
            \/ u[r + 1] = t[r + 1]
            \/ \E j \in Hits(ids, Len(t), r) :
                  j < FirstOutOfRange(ids, Len(t)) /\ u[r + 1] = v[j]}

(* ------------------------------ the calls ----------------------------- *)

\* A constructor argument that is not a dict (a list).
ListArg == [isDict |-> FALSE, items |-> <<>>]

\* The shape of `call`: the operation, its arguments, and once it has run
\* the exception raised (exc = "" for none) and the value returned.
BlankCall ==
    [op |-> "", arg |-> ListArg, key |-> "", hasIds |-> FALSE, ids |-> <<>>,
     vref |-> None, vdata |-> <<>>,
     exc |-> "", msg |-> "", rkind |-> "none", rref |-> None, rdata |-> <<>>]

\* The dictionaries the constructor is given: items in insertion order,
\* keys unique, values references to the caller's tensors or None.
DictArgs ==
    {[isDict |-> TRUE, items |-> s] :
        s \in {q \in SeqsUpTo([k : AllKeys, v : Obj \cup {None}], 2) :
                 \A a, b \in 1 .. Len(q) : a # b => q[a].k # q[b].k}}

Keys(d) == DOMAIN d

(* ----------------------------- __init__ ------------------------------- *)

\* Position of the first item failing an assertion of the loop, 0 if none.
FirstBad(items) ==
    LET bad == {j \in 1 .. Len(items) :
                  ~IsStr(items[j].k) \/ ~IsTensor(items[j].v)}
    IN IF bad = {} THEN 0 ELSE CHOOSE j \in bad : \A i \in bad : j <= i

\* The values of the dict are never checked.
InitErrorKeysOnly(arg) ==
    IF ~arg.isDict THEN "feature_dict must be dict"
    ELSE IF \A j \in 1 .. Len(arg.items) : IsStr(arg.items[j].k) THEN ""
    ELSE "Key must be str"

\* The assertion __init__ fails, "" when it passes them all.
InitError(arg) ==
    IF ~arg.isDict THEN "feature_dict must be dict"
    ELSE IF FirstBad(arg.items) = 0 THEN ""
    ELSE IF ~IsStr(arg.items[FirstBad(arg.items)].k) THEN "Key must be str"
    ELSE "Value must be torch.Tensor"

DictOf(items) ==
    [k \in {items[j].k : j \in 1 .. Len(items)} |->
        items[CHOOSE j \in 1 .. Len(items) : items[j].k = k].v]

EmptyDict == [k \in {} |-> None]

Construct ==
    /\ pc = "called" /\ call.op = "init"
    /\ IF InitError(call.arg) = ""
       THEN /\ feature_dict' = DictOf(call.arg.items)
            /\ call' = call
       ELSE /\ feature_dict' = feature_dict
            /\ call' = [call EXCEPT !.exc = "AssertionError",
                                    !.msg = InitError(call.arg)]
    /\ pc' = "returned"
    /\ UNCHANGED <<heap, held>>

(* ------------------------------- read --------------------------------- *)

Fail(e, m) ==
    [exc |-> e, msg |-> m, rkind |-> "none", rref |-> None, rdata |-> <<>>]

\* The assertion is compiled away.
HasKeyUnchecked(key) == TRUE

\* assert key in self._feature_dict
HasKey(key) == key \in Keys(feature_dict)

\* A full read hands back a copy of the stored tensor.
ReadAllCopy(key) ==
    IF feature_dict[key] \in Obj
    THEN [exc |-> "", msg |-> "", rkind |-> "data", rref |-> None,
          rdata |-> heap[feature_dict[key]]]
    ELSE [exc |-> "", msg |-> "", rkind |-> "ref",
          rref |-> feature_dict[key], rdata |-> <<>>]

\* return self._feature_dict[key]: the stored object itself, no copy.
ReadAll(key) ==
    [exc |-> "", msg |-> "", rkind |-> "ref",
     rref |-> feature_dict[key], rdata |-> <<>>]

\* return self._feature_dict[key][ids]
ReadRows(key, ids) ==
    IF ~IsTensor(feature_dict[key])
    THEN Fail("TypeError", "not subscriptable")
    ELSE IF ~AllInRange(ids, Len(heap[feature_dict[key]]))
    THEN Fail("IndexError", "index out of range")
    ELSE [exc |-> "", msg |-> "", rkind |-> "data", rref |-> None,
          rdata |-> Gather(heap[feature_dict[key]], ids)]

\* The outcome of read(key, ids) in the current state: the exception, and
\* the value returned: a reference to the stored object (rkind "ref") or a
\* newly made tensor (rkind "data").  A subscript of the dictionary with an
\* absent key is a KeyError.
ReadOutcome(key, hasIds, ids) ==
    IF ~HasKey(key) THEN Fail("AssertionError", "key not in")
    ELSE IF key \notin Keys(feature_dict) THEN Fail("KeyError", "")
    ELSE IF ~hasIds THEN ReadAll(key)
    ELSE ReadRows(key, ids)

Read ==
    /\ pc = "called" /\ call.op = "read"
    /\ LET r == ReadOutcome(call.key, call.hasIds, call.ids)
       IN call' = [call EXCEPT !.exc = r.exc, !.msg = r.msg,
                               !.rkind = r.rkind, !.rref = r.rref,
                               !.rdata = r.rdata]
    /\ pc' = "returned"
    /\ UNCHANGED <<feature_dict, heap, held>>

(* ------------------------------ update -------------------------------- *)

Raise(e, m) == call' = [call EXCEPT !.exc = e, !.msg = m]

\* The dict is replaced by one holding only k.
SetItemOnly(d, k, v) == [x \in {k} |-> v]

\* d[k] = v on a Python dict: replaces the value of k, inserts k if absent.
SetItem(d, k, v) ==
    [x \in Keys(d) \cup {k} |-> IF x = k THEN v ELSE d[x]]

\* The value may be longer than the ids.
LengthsMatchAtLeast(ids, value) == Len(ids) <= Len(value)

\* assert ids.shape[0] == value.shape[0]
LengthsMatch(ids, value) == Len(ids) = Len(value)

Update ==
    /\ pc = "called" /\ call.op = "update"
    /\ pc' = "returned"
    /\ held' = held
    /\ IF ~HasKey(call.key)
       THEN Raise("AssertionError", "key not in")
            /\ UNCHANGED <<feature_dict, heap>>
       ELSE IF ~call.hasIds
       THEN /\ feature_dict' = SetItem(feature_dict, call.key, call.vref)
            /\ UNCHANGED <<heap, call>>
       ELSE IF ~LengthsMatch(call.ids, call.vdata)
       THEN Raise("AssertionError", "ids and value must have the same length")
            /\ UNCHANGED <<feature_dict, heap>>
       ELSE IF call.key \notin Keys(feature_dict)
       THEN Raise("KeyError", "") /\ UNCHANGED <<feature_dict, heap>>
       ELSE IF ~IsTensor(feature_dict[call.key])
       THEN Raise("TypeError", "no item assignment")
            /\ UNCHANGED <<feature_dict, heap>>
       ELSE LET o == feature_dict[call.key]
            IN IF AllInRange(call.ids, Len(heap[o]))
               THEN /\ \E u \in ScatterOutcomes(heap[o], call.ids, call.vdata) :
                          heap' = [heap EXCEPT ![o] = u]
                    /\ UNCHANGED <<feature_dict, call>>
               ELSE /\ \E u \in PartialOutcomes(heap[o], call.ids, call.vdata) :
                          heap' = [heap EXCEPT ![o] = u]
                    /\ Raise("IndexError", "index out of range")
                    /\ UNCHANGED feature_dict

(* ------------------------------ the caller ---------------------------- *)

CallInit ==
    /\ pc = "new"
    /\ \E a \in DictArgs \cup {ListArg} :
          call' = [BlankCall EXCEPT !.op = "init", !.arg = a]
    /\ pc' = "called"
    /\ UNCHANGED <<feature_dict, heap, held>>

CallRead ==
    /\ pc = "idle"
    /\ \E k \in StrKeys :
          \/ call' = [BlankCall EXCEPT !.op = "read", !.key = k]
          \/ \E i \in IdsSet :
                call' = [BlankCall EXCEPT !.op = "read", !.key = k,
                                          !.hasIds = TRUE, !.ids = i]
    /\ pc' = "called"
    /\ UNCHANGED <<feature_dict, heap, held>>

\* update(k, v): v is one of the caller's tensors (stored by reference), or
\* None.  update(k, v, ids): only the rows of v are read, so v is given by
\* its contents; a v whose length differs from that of ids is all zeros.
CallUpdate ==
    /\ pc = "idle"
    /\ \E k \in StrKeys :
          \/ \E v \in Obj \cup {None} :
                call' = [BlankCall EXCEPT !.op = "update", !.key = k, !.vref = v]
          \/ \E i \in IdsSet, v \in ValueSet :
                /\ Len(v) # Len(i) => v = Zeros(Len(v))
                /\ call' = [BlankCall EXCEPT !.op = "update", !.key = k,
                                             !.hasIds = TRUE, !.ids = i,
                                             !.vdata = v]
    /\ pc' = "called"
    /\ UNCHANGED <<feature_dict, heap, held>>

NoHandle == [key |-> "", rkind |-> "none", rref |-> None, rdata |-> <<>>]

\* The caller takes the outcome.  A failed construction leaves no store
\* object.  The caller keeps the array handed back by its latest full read
\* as `held`, with the key it was read under; it keeps it when the store
\* is updated, also when update(k, v) rebinds the key and the held array is
\* no longer the stored one.
Resume ==
    /\ pc = "returned"
    /\ pc' = IF call.op = "init" /\ call.exc # "" THEN "failed" ELSE "idle"
    /\ held' = IF call.op = "read" /\ call.exc = "" /\ ~call.hasIds
               THEN [key |-> call.key, rkind |-> call.rkind,
                     rref |-> call.rref, rdata |-> call.rdata]
               ELSE held
    /\ call' = BlankCall
    /\ UNCHANGED <<feature_dict, heap>>

Init ==
    /\ pc = "new"
    /\ feature_dict = EmptyDict
    /\ heap \in [Obj -> UNION {[1 .. n -> Val] : n \in 0 .. MaxRows}]
    /\ \A o \in Obj : Len(heap[o]) = Rows(o)
    /\ call = BlankCall
    /\ held = NoHandle

Next ==
    \/ CallInit
    \/ Construct
    \/ CallRead
    \/ Read
    \/ CallUpdate
    \/ Update
    \/ Resume

Spec == Init /\ [][Next]_vars

(* ====================== vocabulary of the claims ====================== *)

\* The method body of `op` runs in this step.
Executes(op) == pc = "called" /\ pc' = "returned" /\ call.op = op

\* `op` has just run: `call` holds its arguments and its outcome.
Returned(op) == pc = "returned" /\ call.op = op

KeyNotFound(c) == c.exc = "AssertionError" /\ c.msg = "key not in"

ShapeMismatch(c) ==
    c.exc = "AssertionError" /\ c.msg = "ids and value must have the same length"

IndexOutOfBounds(c) == c.exc = "IndexError"

\* Key k is present and holds a tensor.
HoldsTensor(k) == k \in Keys(feature_dict) /\ feature_dict[k] \in Obj

\* The rows of the tensor stored under k, as read(k, none) shows them.
Stored(k) == heap[feature_dict[k]]

\* Every entry of ids is a valid row index of a tensor of n rows.
ValidIds(ids, n) == \A j \in 1 .. Len(ids) : -n <= ids[j] /\ ids[j] < n

\* t[i] as Python reads it: a negative i counts from the end.
PyRow(t, i) == IF i < 0 THEN t[Len(t) + i + 1] ELSE t[i + 1]

\* The positions of ids whose entry is valid and names row r (0-based).
Naming(ids, n, r) ==
    {j \in 1 .. Len(ids) :
        /\ -n <= ids[j] /\ ids[j] < n
        /\ r = (IF ids[j] < 0 THEN ids[j] + n ELSE ids[j])}

\* The arguments of an indexed update that the store can carry out.
GoodIndexedUpdate ==
    /\ call.hasIds
    /\ HoldsTensor(call.key)
    /\ ValidIds(call.ids, Len(Stored(call.key)))
    /\ Len(call.ids) = Len(call.vdata)

(* -------------------------------- C1 ---------------------------------- *)

\* C1: for a present key k and an index list i of valid row indices
\* (duplicates, any order), read(k, i) returns Len(i) rows and its j-th row
\* is row i[j] of read(k, none), in every reachable state.
T1_ReadGathersRows ==
    (/\ Returned("read") /\ call.hasIds
     /\ HoldsTensor(call.key)
     /\ ValidIds(call.ids, Len(Stored(call.key))))
    => /\ call.exc = "" /\ call.rkind = "data"
       /\ Len(call.rdata) = Len(call.ids)
       /\ \A j \in 1 .. Len(call.ids) :
             call.rdata[j] = PyRow(Stored(call.key), call.ids[j])

\* An indexed read of two rows that differ has returned, one of them named
\* from the end.
W1_ReadTwoRows ==
    /\ Returned("read") /\ call.hasIds /\ call.exc = ""
    /\ Len(call.ids) = 2 /\ call.ids[1] = -1
    /\ call.rdata[1] # call.rdata[2]

(* -------------------------------- C2 ---------------------------------- *)

\* Positions of ids that name the same row carry the same row of v.
NoConflict(ids, v, n) ==
    \A r \in 0 .. n - 1 :
        \A a, b \in Naming(ids, n, r) : v[a] = v[b]

\* C2 as stated: after update(k, v, i) with k present, i in range and v as
\* long as i, read(k, i) returns v, duplicates in i included.
CE2_RoundTripWithDuplicates ==
    (Returned("update") /\ GoodIndexedUpdate)
    => /\ call.exc = ""
       /\ ReadOutcome(call.key, TRUE, call.ids).exc = ""
       /\ ReadOutcome(call.key, TRUE, call.ids).rdata = call.vdata

\* C2 (amended): the round trip holds when the positions of i that name the
\* same row carry equal rows of v, in particular when i has no duplicates.
T2_RoundTrip ==
    (/\ Returned("update") /\ GoodIndexedUpdate
     /\ NoConflict(call.ids, call.vdata, Len(Stored(call.key))))
    => /\ call.exc = ""
       /\ ReadOutcome(call.key, TRUE, call.ids).exc = ""
       /\ ReadOutcome(call.key, TRUE, call.ids).rdata = call.vdata

\* An indexed update of two distinct rows with two distinct values has run.
W2_UpdatedTwoRows ==
    /\ Returned("update") /\ GoodIndexedUpdate /\ call.exc = ""
    /\ Len(call.ids) = 2 /\ call.ids[1] = 1 /\ call.ids[2] = 0
    /\ call.vdata[1] # call.vdata[2]

(* -------------------------------- C3 ---------------------------------- *)

\* What the caller sees through the array it holds, given the heap h.
View(handle, h) ==
    IF handle.rkind = "ref" THEN h[handle.rref] ELSE handle.rdata

\* C3: a full read returns the stored object itself; after update(k, v)
\* without ids a full read returns exactly v, whatever its shape; and an
\* indexed update on k shows through the array a full read of k handed
\* back, which is the object the store holds: the key stays bound to it, the
\* caller sees the stored rows through it, and after a successful update
\* every row the ids name holds a row of v written to it.
T3_FullReadIsTheStoredObject ==
    /\ []((Returned("read") /\ ~call.hasIds /\ call.key \in Keys(feature_dict))
            => /\ call.exc = "" /\ call.rkind = "ref"
               /\ call.rref = feature_dict[call.key])
    /\ []((Returned("update") /\ ~call.hasIds
              /\ call.key \in Keys(feature_dict))
            => /\ call.exc = ""
               /\ ReadOutcome(call.key, FALSE, <<>>).exc = ""
               /\ ReadOutcome(call.key, FALSE, <<>>).rkind = "ref"
               /\ ReadOutcome(call.key, FALSE, <<>>).rref = call.vref)
    /\ [][(/\ Executes("update") /\ call.hasIds
           /\ held.key = call.key /\ HoldsTensor(call.key)
           /\ held.rkind = "ref" /\ held.rref = feature_dict[call.key])
          => /\ held' = held
             /\ feature_dict'[call.key] = held.rref
             /\ View(held, heap') = heap'[feature_dict'[call.key]]
             /\ call'.exc = ""
                => \A r \in 0 .. Len(Stored(call.key)) - 1 :
                      Naming(call.ids, Len(Stored(call.key)), r) # {}
                      => \E j \in Naming(call.ids, Len(Stored(call.key)), r) :
                            View(held, heap')[r + 1] = call.vdata[j]]_vars

\* An indexed update has run on a key whose array the caller holds from an
\* earlier full read, and the new row shows through that array.
W3_UpdateSeenThroughHandle ==
    /\ Returned("update") /\ GoodIndexedUpdate /\ call.exc = ""
    /\ held.key = call.key /\ held.rkind = "ref" /\ held.rref = "t1"
    /\ feature_dict[call.key] = "t1"
    /\ call.ids = <<1>> /\ call.vdata = <<1>>
    /\ heap["t1"][2] = 1

(* -------------------------------- C4 ---------------------------------- *)

\* C4: update(k, v, i) on a present key with Len(i) # Len(v) fails with
\* ShapeMismatch and leaves every key's array as it was.
T4_ShapeMismatchChangesNothing ==
    [][(/\ Executes("update") /\ call.hasIds
        /\ call.key \in Keys(feature_dict)
        /\ Len(call.ids) # Len(call.vdata))
       => /\ ShapeMismatch(call')
          /\ feature_dict' = feature_dict
          /\ heap' = heap]_vars

\* An update with a value longer than its ids has failed.
W4_ShapeMismatchRaised ==
    /\ Returned("update") /\ call.hasIds /\ HoldsTensor(call.key)
    /\ Len(call.ids) = 1 /\ Len(call.vdata) = 2
    /\ ShapeMismatch(call)

(* -------------------------------- C5 ---------------------------------- *)

\* C5: read and update with an absent key fail with KeyNotFound, with or
\* without ids; the key is not inserted and the store is unchanged.
T5_AbsentKeyFails ==
    [][(/\ Executes("read") \/ Executes("update")
        /\ call.key \notin Keys(feature_dict))
       => /\ KeyNotFound(call')
          /\ call.key \notin Keys(feature_dict')
          /\ feature_dict' = feature_dict
          /\ heap' = heap]_vars

\* A full update of an absent key has failed.
W5_UpdateAbsentKey ==
    /\ Returned("update") /\ ~call.hasIds /\ call.vref \in Obj
    /\ call.key \notin Keys(feature_dict)
    /\ KeyNotFound(call)

(* -------------------------------- C6 ---------------------------------- *)

\* The argument is not a dict, or has a key that is not a string or a value
\* that is not an array.
BadArg(arg) ==
    \/ ~arg.isDict
    \/ \E j \in 1 .. Len(arg.items) :
          arg.items[j].k \notin StrKeys \/ arg.items[j].v \notin Obj

\* C6: construction fails exactly when the argument is not a dict, a key is
\* not a string or a value is not an array; after a failure there is no
\* store to use, and a well-typed dict is stored as given.
T6_ConstructionValidates ==
    /\ [](Returned("init")
            => /\ (call.exc = "AssertionError") <=> BadArg(call.arg)
               /\ (call.exc = "") <=> ~BadArg(call.arg)
               /\ call.exc = "" =>
                    /\ Keys(feature_dict)
                         = {call.arg.items[j].k : j \in 1 .. Len(call.arg.items)}
                    /\ \A j \in 1 .. Len(call.arg.items) :
                          feature_dict[call.arg.items[j].k] = call.arg.items[j].v
               /\ call.exc # "" => feature_dict = EmptyDict)
    /\ [](pc = "failed" => feature_dict = EmptyDict)
    /\ [][(pc = "returned" /\ call.op = "init")
            => pc' = (IF BadArg(call.arg) THEN "failed" ELSE "idle")]_vars
    /\ [][pc = "failed" => pc' = "failed"]_vars

\* A dict whose second value is not an array has been refused.
W6_NonArrayValueRefused ==
    /\ Returned("init") /\ call.arg.isDict /\ Len(call.arg.items) = 2
    /\ \A j \in 1 .. 2 : call.arg.items[j].k \in StrKeys
    /\ call.arg.items[1].v \in Obj /\ call.arg.items[2].v = None
    /\ call.exc = "AssertionError"

(* -------------------------------- C7 ---------------------------------- *)

\* C7 as stated: whenever read or update fails with KeyNotFound,
\* ShapeMismatch or IndexOutOfBounds nothing has been mutated; an update
\* with an out-of-range entry fails with IndexOutOfBounds.
CE7_FailureMutatesNothing ==
    [][(Executes("read") \/ Executes("update"))
       => /\ (KeyNotFound(call') \/ ShapeMismatch(call')
                \/ IndexOutOfBounds(call'))
             => (feature_dict' = feature_dict /\ heap' = heap)
          /\ (/\ call.op = "update" /\ call.hasIds /\ HoldsTensor(call.key)
              /\ Len(call.ids) = Len(call.vdata)
              /\ ~ValidIds(call.ids, Len(Stored(call.key))))
             => /\ IndexOutOfBounds(call')
                /\ heap'[feature_dict[call.key]] = Stored(call.key)]_vars

\* C7 (amended): a read or update failing with KeyNotFound or ShapeMismatch,
\* and a read failing with IndexOutOfBounds, mutate nothing.  An update
\* whose ids are as long as its value but hold an out-of-range entry fails
\* with IndexOutOfBounds; it leaves the mapping, every other array and every
\* row named by no in-range entry unchanged, and a row named by in-range
\* entries is either unchanged or holds the row of v at one of them.
T7_WhatAFailureLeaves ==
    [][(Executes("read") \/ Executes("update"))
       => /\ (KeyNotFound(call') \/ ShapeMismatch(call')
                \/ (IndexOutOfBounds(call') /\ call.op = "read"))
             => (feature_dict' = feature_dict /\ heap' = heap)
          /\ (/\ call.op = "update" /\ call.hasIds /\ HoldsTensor(call.key)
              /\ Len(call.ids) = Len(call.vdata)
              /\ ~ValidIds(call.ids, Len(Stored(call.key))))
             => /\ IndexOutOfBounds(call')
                /\ feature_dict' = feature_dict
                /\ \A o \in Obj \ {feature_dict[call.key]} : heap'[o] = heap[o]
                /\ Len(heap'[feature_dict[call.key]]) = Len(Stored(call.key))
                /\ \A r \in 0 .. Len(Stored(call.key)) - 1 :
                      \/ heap'[feature_dict[call.key]][r + 1]
                           = Stored(call.key)[r + 1]
                      \/ \E j \in Naming(call.ids, Len(Stored(call.key)), r) :
                            heap'[feature_dict[call.key]][r + 1] = call.vdata[j]
         ]_vars

\* An update whose second entry is out of range has failed with
\* IndexOutOfBounds, and the row its first entry names holds the new value.
W7_OutOfRangeUpdate ==
    /\ Returned("update") /\ call.hasIds /\ HoldsTensor(call.key)
    /\ call.ids = <<0, MaxRows>> /\ call.vdata = <<1, 1>>
    /\ IndexOutOfBounds(call)
    /\ Stored(call.key)[1] = 1

(* -------------------------------- C8 ---------------------------------- *)

\* The last of a non-empty set of positions.
LastPos(S) == CHOOSE j \in S : \A m \in S : m <= j

CE9_UpdateTouchesOnlyItsKey ==
    [][/\ (Executes("update") /\ call.hasIds /\ call'.exc = "")
          => /\ Len(heap'[feature_dict[call.key]]) = Len(Stored(call.key))
             /\ \A r \in 0 .. Len(Stored(call.key)) - 1 :
                   Naming(call.ids, Len(Stored(call.key)), r) = {}
                   => heap'[feature_dict[call.key]][r + 1]
                        = Stored(call.key)[r + 1]
       /\ Executes("update")
          => \A k2 \in Keys(feature_dict) \ {call.key} :
                /\ k2 \in Keys(feature_dict')
                /\ feature_dict'[k2] = feature_dict[k2]
                /\ feature_dict[k2] \in Obj
                   => heap'[feature_dict[k2]] = heap[feature_dict[k2]]
       /\ Executes("read") => (feature_dict' = feature_dict /\ heap' = heap)
      ]_vars

\* C9 (amended): a successful update(k, v, i) keeps the shape of k's array
\* and every row that no entry of i names (a negative entry names a row from
\* the end); any update on k leaves every other key k' mapped to the same
\* object, and leaves the array read under k' unchanged unless k' holds the
\* very array object k holds and the update is indexed; read changes nothing.
T9_UpdateFrame ==
    [][/\ (Executes("update") /\ call.hasIds /\ call'.exc = "")
          => /\ Len(heap'[feature_dict[call.key]]) = Len(Stored(call.key))
             /\ \A r \in 0 .. Len(Stored(call.key)) - 1 :
                   Naming(call.ids, Len(Stored(call.key)), r) = {}
                   => heap'[feature_dict[call.key]][r + 1]
                        = Stored(call.key)[r + 1]
       /\ Executes("update")
          => \A k2 \in Keys(feature_dict) \ {call.key} :
                /\ k2 \in Keys(feature_dict')
                /\ feature_dict'[k2] = feature_dict[k2]
                /\ (/\ feature_dict[k2] \in Obj
                    /\ call.key \in Keys(feature_dict)
                       => (~call.hasIds
                             \/ feature_dict[k2] # feature_dict[call.key]))
                   => heap'[feature_dict[k2]] = heap[feature_dict[k2]]
       /\ Executes("read") => (feature_dict' = feature_dict /\ heap' = heap)
      ]_vars

\* One row of a two-row array has been updated while another key holds
\* another array.
W9_OneRowUpdated ==
    /\ Returned("update") /\ GoodIndexedUpdate /\ call.exc = ""
    /\ call.key = "user" /\ feature_dict["user"] = "t1"
    /\ "item" \in Keys(feature_dict) /\ feature_dict["item"] = "t2"
    /\ call.ids = <<0>> /\ call.vdata = <<1>>
    /\ heap["t1"] = <<1, 0>>

(* -------------------------------- C10 --------------------------------- *)

\* C10: after construction no read or update, successful or failing, adds
\* or deletes a key, and every key maps to a value of the array type.
CE10_KeysFixedValuesArrays ==
    [][(Executes("read") \/ Executes("update"))
       => /\ Keys(feature_dict') = Keys(feature_dict)
          /\ \A k \in Keys(feature_dict') : feature_dict'[k] \in Obj]_vars

====
